---- MODULE Spec2Model ----
(***************************************************************************)
(* Model of checkov/kustomize/runner.py: Runner.run and the helpers it     *)
(* calls (parseKustomization, the base resolution loop, the templating     *)
(* call, the page-to-file splitter and _curWriterRenameAndClose), and the  *)
(* two methods of K8sKustomizeRunner that add results to the report.       *)
(*                                                                         *)
(* Conventions.                                                            *)
(*  - A path is the sequence of its components below "/":                  *)
(*    /w/app/base is <<"w","app","base">>.  All unit directories are       *)
(*    absolute and symlink free (os.path.abspath of an os.walk root).      *)
(*  - A file of the temporary output tree is [dir |-> d, file |-> n]; d    *)
(*    starts with target_dir, which every call of run() creates anew.      *)
(*  - A Python dict is a function whose DOMAIN is the set of its keys; a   *)
(*    missing key is a key outside DOMAIN (KeyError when subscripted).     *)
(*  - An uncaught exception ends run(): pc = "crashed", err says which     *)
(*    exception from which source line, and leaving the                    *)
(*    "with tempfile.TemporaryDirectory()" block removes the output tree.  *)
(***************************************************************************)
EXTENDS Integers, Sequences, FiniteSets, TLC

VARIABLES
    runs,                            \* how many times run() was called in this process
    units,                           \* the file system: <<[dir, manifest], ...>> in os.walk order
    potentialBases,                  \* Runner.potentialBases (class attribute)
    potentialOverlays,               \* Runner.potentialOverlays (class attribute)
    metaKeys,                        \* key order of Runner.kustomizeProcessedFolderAndMeta
    kustomizeProcessedFolderAndMeta, \* Runner.kustomizeProcessedFolderAndMeta (class attribute)
    kustomizeFileMappings,           \* Runner.kustomizeFileMappings (class attribute)
    disk,                            \* files under target_dir: file |-> lines
    scanned,                         \* the tree K8sKustomizeRunner.run was given
    pc,                              \* position of run()
    idx,                             \* position of the current for loop
    eBound,                          \* whether the local name e of run() is bound
    o,                               \* stdout of the last templating call, as lines
    reader,                          \* lines io.StringIO(output) has still to yield
    extractDir,                      \* local extractDir
    cur_writer,                      \* <<>> is None, <<f>> an open file named f
    cur_source_file,                 \* -1 is None
    last_line_dashes,
    line_num,
    file_num,
    err,                             \* the exception that ended run(), NoErr if none
    engine,                          \* what the Kubernetes runner reported to the adapter
    report,                          \* the records of the report run() returns
    log                              \* history: what this run() has done so far, in order

vars == <<runs, units, potentialBases, potentialOverlays, metaKeys,
          kustomizeProcessedFolderAndMeta, kustomizeFileMappings, disk, scanned,
          pc, idx, eBound, o, reader, extractDir, cur_writer, cur_source_file,
          last_line_dashes, line_num, file_num, err, engine, report, log>>

\* what a call of run() is given, and what it hands on
callVars == <<runs, units, engine, report>>

classVars == <<potentialBases, potentialOverlays, metaKeys,
               kustomizeProcessedFolderAndMeta, kustomizeFileMappings>>

splitVars == <<reader, extractDir, cur_writer, cur_source_file,
               last_line_dashes, line_num, file_num>>

(***************************************************************************)
(* Bounds and input universes.                                             *)
(***************************************************************************)
\* most documents (chunks) in one templating output under SpecSplit
MaxChunks == 2

EmptyMap == [k \in {} |-> k]
Put(m, k, v) == [x \in DOMAIN m \cup {k} |-> IF x = k THEN v ELSE m[x]]

NoErr == [type |-> "", line |-> 0]
Error(t, l) == [type |-> t, line |-> l]

\* one entry of the history
Ev(e, u, n, ls) == [ev |-> e, unit |-> u, n |-> n, lines |-> ls]

BaseDir == <<"w", "app", "base">>
Base2Dir == <<"w", "app", "base2">>
OverlayDir == <<"w", "app", "overlays", "prod">>
Dirs == {BaseDir, Base2Dir, OverlayDir}

RefBase == <<"..", "..", "base">>
RefBase2 == <<"..", "..", "base2">>
RefLists == {<<>>, <<RefBase>>, <<RefBase2>>}

Keys == {"resources", "patchesStrategicMerge", "bases"}

\* the values of the 'bases' key tried with a set of declared keys
BasesValues(k) ==
    IF "bases" \notin k THEN {<<>>}
    ELSE IF "resources" \in k THEN {<<RefBase>>}
    ELSE RefLists

\* a kustomization.yaml: whether yaml.safe_load accepts it, and if so the
\* top-level keys it declares and the value of 'bases'
Manifests ==
    {[parses |-> TRUE, keys |-> k, bases |-> b] : k \in SUBSET Keys, b \in RefLists}

AllManifests ==
    {m \in Manifests : m.bases \in BasesValues(m.keys)}
        \cup {[parses |-> FALSE, keys |-> {}, bases |-> <<>>]}

(***************************************************************************)
(* pathlib / os.path                                                       *)
(***************************************************************************)
\* f"{dir}/kustomization.yaml"
ManifestPath(d) == d \o <<"kustomization.yaml">>

\* pathlib.Path(p).parent
PathParent(p) == IF p = <<>> THEN <<>> ELSE SubSeq(p, 1, Len(p) - 1)

\* pathlib.Path(p).parents, nearest first; Python's parents[i] is PathParents(p)[i+1]
PathParents(p) == [i \in 1..Len(p) |-> SubSeq(p, 1, Len(p) - i)]

\* pathlib.Path(p).resolve() on a symlink-free tree: ".." and "." are folded
RECURSIVE Normalize(_, _)
Normalize(acc, rest) ==
    IF rest = <<>> THEN acc
    ELSE LET h == Head(rest) IN
         Normalize(IF h = ".." THEN PathParent(acc)
                   ELSE IF h = "." THEN acc
                   ELSE Append(acc, h),
                   Tail(rest))

PathResolve(p) == Normalize(<<>>, p)

IsPrefix(a, b) == Len(a) <= Len(b) /\ SubSeq(b, 1, Len(a)) = a

\* pathlib.Path(p).relative_to(base), for base a prefix of p
RelativeTo(p, base) == SubSeq(p, Len(base) + 1, Len(p))

\* pathlib.Path(p).stem: the final component without its last suffix
StemOfName(n) ==
    CASE n = "prod.v1" -> "prod"
      [] n = "base.d" -> "base"
      [] OTHER -> n

PathStem(p) == IF p = <<>> THEN "" ELSE StemOfName(p[Len(p)])

\* pathlib's _parts of an absolute path: the root, then the components
Parts(p) == <<"/">> \o p

(***************************************************************************)
(* Runner.parseKustomization (lines 130-168).  metadata['fileContent'] is  *)
(* stored by the code and never read again; it is left out.                *)
(***************************************************************************)
\* the exception parseKustomization raises (NoErr: none) and the metadata it returns
parseKustomization(d, mf) ==
    IF ~mf.parses
    THEN \* yaml.YAMLError is logged, then line 145 reads the unbound fileContent
         [err |-> Error("UnboundLocalError", 145), metadata |-> EmptyMap]
    ELSE IF "resources" \in mf.keys
    THEN [err |-> NoErr,
          metadata |-> [type |-> "base", filePath |-> ManifestPath(d)]]
    ELSE IF "patchesStrategicMerge" \in mf.keys
    THEN [err |-> NoErr,
          metadata |-> IF "bases" \in mf.keys
                       THEN [type |-> "overlay", referenced_bases |-> mf.bases,
                             filePath |-> ManifestPath(d)]
                       ELSE [type |-> "overlay", filePath |-> ManifestPath(d)]]
    ELSE \* line 155: 'bases' in fileContent.get, a method object is not iterable
         [err |-> Error("TypeError", 155), metadata |-> EmptyMap]

(***************************************************************************)
(* Base resolution, Runner.run lines 205-233.                              *)
(***************************************************************************)
\* lines 207-211: one pass over Runner.potentialBases for one ancestor
RECURSIVE WalkBases(_, _, _, _)
WalkBases(m, parent, bases, j) ==
    IF j > Len(bases) THEN m
    ELSE LET pathlibBaseObject == bases[j]
             potentialBasePath == PathParents(pathlibBaseObject)[2]
         IN  WalkBases(IF parent = PathResolve(potentialBasePath)
                       THEN Put(m, "calculated_bases", PathParent(pathlibBaseObject))
                       ELSE m,
                       parent, bases, j + 1)

\* lines 206-211: every ancestor of filePath, nearest first
RECURSIVE WalkParents(_, _, _, _)
WalkParents(m, parents, bases, i) ==
    IF i > Len(parents) THEN m
    ELSE WalkParents(WalkBases(m, parents[i], bases, 1), parents, bases, i + 1)

\* lines 226 and 231
FallbackName(filePath) == <<"UNVALIDATEDBASEDIR", PathStem(filePath)>>

\* ValidatedName keeping only the overlay directory's own name
ValidatedNameLastOnly(filePath, calculated) == <<filePath[Len(filePath)]>>

\* lines 222-223
ValidatedName(filePath, calculated) == RelativeTo(filePath, PathParent(calculated))

\* lines 216-233: the exception raised (NoErr: none) and the metadata afterwards
NameOverlay(m, filePath) ==
    IF "referenced_bases" \notin DOMAIN m
    THEN \* KeyError at line 217, caught at line 230
         [err |-> NoErr, metadata |-> Put(m, "overlay_name", FallbackName(filePath))]
    ELSE IF m.referenced_bases = <<>>
    THEN \* IndexError at line 217: only KeyError is caught
         [err |-> Error("IndexError", 217), metadata |-> m]
    ELSE LET relativeToFullPath == filePath \o m.referenced_bases[1] IN
         IF "calculated_bases" \notin DOMAIN m
         THEN \* KeyError at line 220, caught at line 230
              [err |-> NoErr, metadata |-> Put(m, "overlay_name", FallbackName(filePath))]
         ELSE IF m.calculated_bases = PathResolve(relativeToFullPath)
         THEN [err |-> NoErr,
               metadata |-> Put(Put(m, "validated_base", m.calculated_bases),
                                "overlay_name",
                                ValidatedName(filePath, m.calculated_bases))]
         ELSE [err |-> NoErr, metadata |-> Put(m, "overlay_name", FallbackName(filePath))]

\* lines 204-233 for one key of kustomizeProcessedFolderAndMeta
ResolveUnit(m, filePath, bases) ==
    IF m.type = "overlay"
    THEN NameOverlay(WalkParents(m, PathParents(filePath), bases, 1), filePath)
    ELSE [err |-> NoErr, metadata |-> m]

(***************************************************************************)
(* The output directory of a unit, Runner.run lines 248-259.               *)
(***************************************************************************)
\* "/" + a + "/" + b + "/" + c as a path below target_dir: a root part adds nothing
JoinParts(ps) == SelectSeq(ps, LAMBDA c : c # "/")

\* the exception raised (NoErr: none) and envOrBasePathPrefix
EnvOrBasePathPrefix(m) ==
    IF m.type = "overlay"
    THEN IF "calculated_bases" \notin DOMAIN m
         THEN [err |-> Error("KeyError", 249), prefix |-> <<>>]
         ELSE LET parts == Parts(m.calculated_bases)
                  n == Len(parts)
              IN  IF n < 3
                  THEN [err |-> Error("IndexError", 250), prefix |-> <<>>]
                  ELSE [err |-> NoErr,
                        prefix |-> JoinParts(SubSeq(parts, n - 2, n)) \o m.overlay_name]
    ELSE LET parts == Parts(m.filePath)
             n == Len(parts)
         IN  IF n < 4
             THEN [err |-> Error("IndexError", 256), prefix |-> <<>>]
             ELSE [err |-> NoErr, prefix |-> JoinParts(SubSeq(parts, n - 3, n - 1))]

(***************************************************************************)
(* Lines of a templating output and of a document file.                    *)
(***************************************************************************)
SEP == "---"
HDR == "apiVersion: v1"

\* str.rstrip(): trailing white space is dropped
Rstrip(l) ==
    CASE l = "   " -> ""
      [] l = "---  " -> "---"
      [] OTHER -> l

\* s.startswith('apiVersion:')
StartsWithApiVersion(s) == s \in {"apiVersion: v1", "apiVersion: apps/v1"}

\* what the YAML scanner makes of one line of a block mapping
LineToken(l) ==
    CASE l = "---" -> [cls |-> "docstart", key |-> "", val |-> ""]
      [] l = "" -> [cls |-> "blank", key |-> "", val |-> ""]
      [] l = "# Warning" -> [cls |-> "blank", key |-> "", val |-> ""]
      [] l = "apiVersion: v1" -> [cls |-> "scalar", key |-> "apiVersion", val |-> "v1"]
      [] l = "apiVersion: apps/v1" -> [cls |-> "scalar", key |-> "apiVersion", val |-> "apps/v1"]
      [] l = "kind: ConfigMap" -> [cls |-> "scalar", key |-> "kind", val |-> "ConfigMap"]
      [] l = "metadata:" -> [cls |-> "mapkey", key |-> "metadata", val |-> ""]
      [] l = "  name: x" -> [cls |-> "nested", key |-> "name", val |-> "x"]
      [] l = "  name: y" -> [cls |-> "nested", key |-> "name", val |-> "y"]
      [] l = "  namespace: default" -> [cls |-> "nested", key |-> "namespace", val |-> "default"]
      [] OTHER -> [cls |-> "invalid", key |-> "", val |-> ""]

\* the object under construction: has are the top-level keys seen, kind the
\* value of 'kind' (<<>>: no such key), metadata the value of 'metadata' while
\* it is a mapping, isNull whether 'metadata' has no value, ctx the last token
YamlStart ==
    [bad |-> FALSE, has |-> {}, kind |-> <<>>, isNull |-> FALSE,
     metadata |-> EmptyMap, ctx |-> "start"]

YamlStep(st, l) ==
    LET t == LineToken(l) IN
    IF st.bad THEN st
    ELSE CASE t.cls = "blank" -> st
           [] t.cls = "docstart" ->
                \* a second document start: safe_load expects a single document
                IF st.ctx = "start" THEN [st EXCEPT !.ctx = "top"]
                ELSE [st EXCEPT !.bad = TRUE]
           [] t.cls = "scalar" ->
                \* a repeated key keeps the last value
                [st EXCEPT !.has = @ \cup {t.key},
                           !.kind = IF t.key = "kind" THEN <<t.val>> ELSE @,
                           !.ctx = "scalar"]
           [] t.cls = "mapkey" ->
                [st EXCEPT !.has = @ \cup {t.key},
                           !.isNull = TRUE,
                           !.metadata = EmptyMap,
                           !.ctx = "mapkey"]
           [] t.cls = "nested" ->
                \* an indented entry continues 'metadata:', nothing else
                IF st.ctx \in {"mapkey", "nested"}
                THEN [st EXCEPT !.isNull = FALSE,
                                !.metadata = Put(@, t.key, t.val),
                                !.ctx = "nested"]
                ELSE [st EXCEPT !.bad = TRUE]
           [] OTHER -> [st EXCEPT !.bad = TRUE]

RECURSIVE YamlFold(_, _)
YamlFold(st, ls) == IF ls = <<>> THEN st ELSE YamlFold(YamlStep(st, Head(ls)), Tail(ls))

\* yaml.safe_load of a document file
YamlLoad(ls) == YamlFold(YamlStart, ls)

(***************************************************************************)
(* Files of the output tree.  A temporary file is named by its ordinal,    *)
(* <<"0">>; a final name <<kind, namespace, name>> stands for              *)
(* '-'.join(itemName) + ".yaml".                                           *)
(***************************************************************************)
\* open(f, 'a'): an existing file keeps its content
OpenAppend(d, f) == IF f \in DOMAIN d THEN d ELSE Put(d, f, <<>>)

\* cur_writer.write(s + os.linesep)
WriteLine(d, f, s) == Put(d, f, Append(d[f], s))

\* Rename refusing to replace an existing dst: src is dropped instead
RenameNoReplace(d, src, dst) ==
    [f \in (DOMAIN d \ {src}) \cup {dst} |-> IF f = dst /\ dst \notin DOMAIN d THEN d[src] ELSE d[f]]

\* os.rename(src, dst): dst is replaced when it exists
Rename(d, src, dst) ==
    [f \in (DOMAIN d \ {src}) \cup {dst} |-> IF f = dst THEN d[src] ELSE d[f]]

\* CurWriterRenameAndClose rebinding kustomizeFileMappings to a dict that
\* holds the new entry alone
CurWriterRenameAndCloseRebind(d, fm, currentFileName, FilePath) ==
    LET currentYamlObject == YamlLoad(d[currentFileName])
        md == currentYamlObject.metadata
        keep(e) == [err |-> e, disk |-> d, mappings |-> fm]
    IN  IF currentYamlObject.bad THEN keep(Error("YAMLError", 348))
        ELSE IF "kind" \notin currentYamlObject.has THEN keep(Error("KeyError", 350))
        ELSE IF "metadata" \notin currentYamlObject.has THEN keep(Error("KeyError", 351))
        ELSE IF currentYamlObject.isNull THEN keep(Error("TypeError", 351))
        ELSE LET itemName ==
                     <<currentYamlObject.kind[1],
                       IF "namespace" \in DOMAIN md THEN md["namespace"] ELSE "default",
                       IF "name" \in DOMAIN md THEN md["name"] ELSE "noname">>
                 newFullPathFilename == [dir |-> currentFileName.dir, file |-> itemName]
             IN  [err |-> NoErr,
                  disk |-> Rename(d, currentFileName, newFullPathFilename),
                  mappings |-> Put(EmptyMap, newFullPathFilename, FilePath)]

\* Runner._curWriterRenameAndClose (lines 340-366): the exception raised
\* (NoErr: none), the tree and kustomizeFileMappings afterwards.  Only
\* IsADirectoryError is caught, and no directory of the tree is named like a
\* document file, so every exception here leaves run().
CurWriterRenameAndClose(d, fm, currentFileName, FilePath) ==
    LET currentYamlObject == YamlLoad(d[currentFileName])
        md == currentYamlObject.metadata
        keep(e) == [err |-> e, disk |-> d, mappings |-> fm]
    IN  IF currentYamlObject.bad THEN keep(Error("YAMLError", 348))
        ELSE IF "kind" \notin currentYamlObject.has THEN keep(Error("KeyError", 350))
        ELSE IF "metadata" \notin currentYamlObject.has THEN keep(Error("KeyError", 351))
        ELSE IF currentYamlObject.isNull THEN keep(Error("TypeError", 351))
        ELSE LET itemName ==
                     <<currentYamlObject.kind[1],
                       IF "namespace" \in DOMAIN md THEN md["namespace"] ELSE "default",
                       IF "name" \in DOMAIN md THEN md["name"] ELSE "noname">>
                 newFullPathFilename == [dir |-> currentFileName.dir, file |-> itemName]
             IN  [err |-> NoErr,
                  disk |-> Rename(d, currentFileName, newFullPathFilename),
                  mappings |-> Put(fm, newFullPathFilename, FilePath)]

(***************************************************************************)
(* Templating outputs.                                                     *)
(***************************************************************************)
DocX == <<SEP, HDR, "kind: ConfigMap", "metadata:", "  name: x">>
DocY == <<SEP, HDR, "kind: ConfigMap", "metadata:", "  name: y", "   ">>
\* kind, namespace and name of DocX, other content
DocXns == <<SEP, HDR, "kind: ConfigMap", "metadata:", "  name: x", "  namespace: default">>
DocNoKind == <<SEP, HDR, "metadata:", "  name: x">>
\* a document that no separator line introduces
BareDoc == <<HDR, "kind: ConfigMap", "metadata:", "  name: x">>
\* a separator that no header line follows
SepBody == <<SEP, "kind: ConfigMap">>
\* a document whose body holds a line starting with the header key
StrayDoc == <<SEP, HDR, "kind: ConfigMap", "metadata:", "  name: y", "apiVersion: apps/v1">>
Noise == <<"# Warning">>

Chunks == {DocX, DocY, DocNoKind, BareDoc, SepBody, StrayDoc, Noise}

\* the concatenations of at most n chunks
RECURSIVE StreamsOf(_)
StreamsOf(n) ==
    IF n = 0 THEN {<<>>}
    ELSE LET S == StreamsOf(n - 1) IN S \cup {s \o c : s \in S, c \in Chunks}

\* what subprocess.Popen(...).communicate() does: raise, or return with an
\* exit status rc and the lines of stdout
Raised == [raised |-> TRUE, rc |-> -1, stdout |-> <<>>]
Exited(rc, ls) == [raised |-> FALSE, rc |-> rc, stdout |-> ls]

RunOutcomes == {Raised, Exited(0, DocX), Exited(1, <<>>)}

SplitOutcomes ==
    {Raised} \cup {Exited(0, s) : s \in StreamsOf(MaxChunks)}
             \cup {Exited(1, s) : s \in {<<>>, DocX}}

(***************************************************************************)
(* The file system run() is started on: findKustomizeDirectories (lines    *)
(* 110-127) with a root folder returns every directory holding a           *)
(* kustomization.yaml once, a directory before the directories under it.   *)
(***************************************************************************)
DirSeqs(DS) ==
    UNION {{s \in [1..n -> DS] : \A i, j \in 1..n : i # j => s[i] # s[j]} :
           n \in 1..Cardinality(DS)}

TopDown(s) == \A i, j \in 1..Len(s) : i < j => ~IsPrefix(s[j], s[i])

UnitSeqs(DS, MS) ==
    UNION {{[i \in 1..Len(ds) |-> [dir |-> ds[i], manifest |-> ms[i]]] :
            ms \in [1..Len(ds) -> MS]} :
           ds \in {s \in DirSeqs(DS) : TopDown(s)}}

BaseManifest == [parses |-> TRUE, keys |-> {"resources"}, bases |-> <<>>]
OverlayManifest ==
    [parses |-> TRUE, keys |-> {"patchesStrategicMerge", "bases"}, bases |-> <<RefBase>>]

\* a base and an overlay of it, in either order
SplitUnits ==
    {u \in UnitSeqs({BaseDir, OverlayDir}, {BaseManifest, OverlayManifest}) :
        /\ Len(u) = 2
        /\ \A i \in 1..2 :
             u[i].manifest = IF u[i].dir = BaseDir THEN BaseManifest ELSE OverlayManifest}

\* no result reported
NoFindings == [entities |-> <<>>, graph |-> <<>>]

InitOver(US) ==
    /\ runs = 1
    /\ units \in US
    /\ potentialBases = <<>>
    /\ potentialOverlays = <<>>
    /\ metaKeys = <<>>
    /\ kustomizeProcessedFolderAndMeta = EmptyMap
    /\ kustomizeFileMappings = EmptyMap
    /\ disk = EmptyMap
    /\ scanned = EmptyMap
    /\ pc = "classify"
    /\ idx = 1
    /\ eBound = FALSE
    /\ o = <<>>
    /\ reader = <<>>
    /\ extractDir = <<>>
    /\ cur_writer = <<>>
    /\ cur_source_file = -1
    /\ last_line_dashes = FALSE
    /\ line_num = 1
    /\ file_num = 0
    /\ err = NoErr
    /\ engine = NoFindings
    /\ report = <<>>
    /\ log = <<>>

Init == InitOver(UnitSeqs(Dirs, AllManifests))

InitSplit == InitOver(SplitUnits)

(***************************************************************************)
(* K8sKustomizeRunner (lines 27-98): the two methods the Kubernetes runner *)
(* calls to add its results to the report.  A formatted string is the      *)
(* sequence of its pieces: 'overlay:overlays/prod:x' is                    *)
(* <<"overlay", ":", "overlays", "/", "prod", ":", "x">>.                  *)
(***************************************************************************)
\* most results in one call of mutateKubernetesGraphResults
MaxReported == 2

\* line 46 and line 81
Sentinel == <<"Unknown error. This is a bug.">>

\* str() of a pathlib path or of the f-string of lines 226/231: the
\* components with "/" between them
RECURSIVE PathStr(_)
PathStr(p) ==
    IF Len(p) <= 1 THEN p ELSE <<Head(p), "/">> \o PathStr(Tail(p))

\* KustomizeResourceID leaving the overlay name out of an overlay's identifier
KustomizeResourceIDNoName(meta, fm, file_abs_path, resource_id, line) ==
    IF file_abs_path \in DOMAIN fm
    THEN IF fm[file_abs_path] \notin DOMAIN meta
         THEN [err |-> Error("KeyError", line), real |-> <<>>, id |-> <<>>]
         ELSE [err |-> NoErr,
               real |-> <<meta[fm[file_abs_path]]>>,
               id |-> <<meta[fm[file_abs_path]].type, ":", resource_id>>]
    ELSE [err |-> NoErr, real |-> <<>>, id |-> Sentinel]

\* lines 39-46 and 74-81: the exception raised (NoErr: none), the metadata
\* looked up if any (<<>>: the branch of line 45 binds none) and
\* kustomizeResourceID
KustomizeResourceID(meta, fm, file_abs_path, resource_id, line) ==
    IF file_abs_path \in DOMAIN fm
    THEN IF fm[file_abs_path] \notin DOMAIN meta
         THEN [err |-> Error("KeyError", line), real |-> <<>>, id |-> <<>>]
         ELSE LET realKustomizeEnvMetadata == meta[fm[file_abs_path]] IN
              IF realKustomizeEnvMetadata.type = "overlay"
              THEN IF "overlay_name" \notin DOMAIN realKustomizeEnvMetadata
                   THEN [err |-> Error("KeyError", line + 2), real |-> <<>>, id |-> <<>>]
                   ELSE [err |-> NoErr,
                         real |-> <<realKustomizeEnvMetadata>>,
                         id |-> <<realKustomizeEnvMetadata.type, ":">>
                                  \o PathStr(realKustomizeEnvMetadata.overlay_name)
                                  \o <<":", resource_id>>]
              ELSE [err |-> NoErr,
                    real |-> <<realKustomizeEnvMetadata>>,
                    id |-> <<realKustomizeEnvMetadata.type, ":", resource_id>>]
    ELSE [err |-> NoErr, real |-> <<>>, id |-> Sentinel]

\* Record(...) of lines 48-53 and 83-94
Record(check, resource, file_path, file_abs_path) ==
    [check |-> check, resource |-> resource, file_path |-> file_path,
     file_abs_path |-> file_abs_path]

\* mutateKubernetesResults (lines 29-57), the loop of line 35 from its i-th
\* item on; real is the local realKustomizeEnvMetadata, <<>> while unbound
RECURSIVE ResultsLoop(_, _, _, _, _, _, _)
ResultsLoop(results, i, rep, real, meta, fm, ent) ==
    IF i > Len(results) THEN [err |-> NoErr, report |-> rep]
    ELSE LET k == KustomizeResourceID(meta, fm, ent.path, ent.id, 40)
             now == IF k.real # <<>> THEN k.real ELSE real
         IN  IF k.err # NoErr THEN [err |-> k.err, report |-> rep]
             ELSE IF now = <<>>
             THEN \* line 50 reads realKustomizeEnvMetadata, bound by no branch
                  [err |-> Error("UnboundLocalError", 50), report |-> rep]
             ELSE ResultsLoop(results, i + 1,
                              Append(rep, Record(results[i], k.id, now[1].filePath,
                                                 now[1].filePath)),
                              now, meta, fm, ent)

mutateKubernetesResults(results, rep, meta, fm, ent) ==
    ResultsLoop(results, 1, rep, <<>>, meta, fm, ent)

\* mutateKubernetesGraphResults (lines 59-98), the loops of lines 66-67
\* from the i-th result on
RECURSIVE GraphLoop(_, _, _, _, _, _)
GraphLoop(checks_results, i, rep, real, meta, fm) ==
    IF i > Len(checks_results) THEN [err |-> NoErr, report |-> rep]
    ELSE LET entity == checks_results[i]
             k == KustomizeResourceID(meta, fm, entity.path, entity.id, 75)
             now == IF k.real # <<>> THEN k.real ELSE real
         IN  IF k.err # NoErr THEN [err |-> k.err, report |-> rep]
             ELSE IF now = <<>>
             THEN \* line 88 reads realKustomizeEnvMetadata, bound by no branch
                  [err |-> Error("UnboundLocalError", 88), report |-> rep]
             ELSE GraphLoop(checks_results, i + 1,
                            Append(rep, Record(entity.check, k.id, now[1].filePath,
                                               entity.path)),
                            now, meta, fm)

mutateKubernetesGraphResults(checks_results, rep, meta, fm) ==
    GraphLoop(checks_results, 1, rep, <<>>, meta, fm)

(***************************************************************************)
(* What the Kubernetes runner reports about the tree it is given: calls of *)
(* mutateKubernetesResults, one per entity with the results of the checks  *)
(* on it, then one call of mutateKubernetesGraphResults.                   *)
(***************************************************************************)
\* a path under target_dir that no document was ever renamed to
UnknownFile == [dir |-> <<"w", "app", "base">>, file |-> <<"0">>]

ReportedPaths(tree) == DOMAIN tree \cup {UnknownFile}

EntityCalls(tree) ==
    {[path |-> f, id |-> "ConfigMap.default.x", results |-> rs] :
        f \in ReportedPaths(tree), rs \in {<<>>, <<"CKV_K8S_21">>}}

GraphResults(tree, n) ==
    UNION {[1..k -> {[check |-> "CKV2_K8S_6", path |-> f, id |-> "ConfigMap.default.x"] :
                        f \in ReportedPaths(tree)}] : k \in 0..n}

\* at most e calls of mutateKubernetesResults, then a call of
\* mutateKubernetesGraphResults with at most n results
EngineRuns(tree, e, n) ==
    {[entities |-> es, graph |-> g] :
        es \in UNION {[1..k -> EntityCalls(tree)] : k \in 0..e},
        g \in GraphResults(tree, n)}

\* the calls of one engine run, in order, from the i-th entity on
RECURSIVE EntityLoop(_, _, _, _, _)
EntityLoop(run, i, rep, meta, fm) ==
    IF i > Len(run.entities)
    THEN mutateKubernetesGraphResults(run.graph, rep, meta, fm)
    ELSE LET r == mutateKubernetesResults(run.entities[i].results, rep, meta, fm,
                                          run.entities[i])
         IN  IF r.err # NoErr THEN r
             ELSE EntityLoop(run, i + 1, r.report, meta, fm)

\* k8s_runner.run(target_dir, ..., reportMutatorData=...) of line 322
RunEngine(run, meta, fm) == EntityLoop(run, 1, <<>>, meta, fm)

(***************************************************************************)
(* Runner.run (lines 189-338).                                             *)
(***************************************************************************)
\* an exception no handler of run() catches: run() is left, and the exit of
\* the "with tempfile.TemporaryDirectory()" block removes the output tree
Crash(e, newLog) ==
    /\ pc' = "crashed"
    /\ err' = e
    /\ disk' = EmptyMap
    /\ log' = newLog
    /\ UNCHANGED <<callVars, classVars, scanned, idx, eBound, o, splitVars>>

\* NextUnit entering the templating call without the naming of lines 204-233
NextUnitSkipsResolve ==
    IF idx < Len(metaKeys)
    THEN pc' = "template" /\ idx' = idx + 1
    ELSE pc' = "k8s" /\ idx' = idx

\* the for loop of line 198 goes to its next key, or ends
NextUnit ==
    IF idx < Len(metaKeys)
    THEN pc' = "resolve" /\ idx' = idx + 1
    ELSE pc' = "k8s" /\ idx' = idx

\* lines 194-195, one iteration: parseKustomization of the next directory
Classify ==
    /\ pc = "classify"
    /\ LET kustomizedir == units[idx].dir
           r == parseKustomization(kustomizedir, units[idx].manifest)
           metadata == r.metadata
       IN  IF r.err # NoErr
           THEN Crash(r.err, log)
           ELSE /\ potentialBases' =
                       IF metadata.type = "base"
                       THEN Append(potentialBases, metadata.filePath)
                       ELSE potentialBases
                /\ potentialOverlays' =
                       IF metadata.type = "overlay"
                       THEN Append(potentialOverlays, metadata.filePath)
                       ELSE potentialOverlays
                /\ kustomizeProcessedFolderAndMeta' =
                       Put(kustomizeProcessedFolderAndMeta, kustomizedir, metadata)
                /\ metaKeys' =
                       IF kustomizedir \in DOMAIN kustomizeProcessedFolderAndMeta
                       THEN metaKeys
                       ELSE Append(metaKeys, kustomizedir)
                /\ log' = Append(log, Ev("classify", kustomizedir, 0, <<>>))
                /\ IF idx < Len(units)
                   THEN pc' = "classify" /\ idx' = idx + 1
                   ELSE pc' = "resolve" /\ idx' = 1
                /\ UNCHANGED <<callVars, kustomizeFileMappings, disk, scanned, eBound, o,
                               splitVars, err>>

\* lines 204-233 for the current key
Resolve ==
    /\ pc = "resolve"
    /\ LET filePath == metaKeys[idx]
           r == ResolveUnit(kustomizeProcessedFolderAndMeta[filePath], filePath,
                            potentialBases)
       IN  IF r.err # NoErr
           THEN Crash(r.err, log)
           ELSE /\ kustomizeProcessedFolderAndMeta' =
                       Put(kustomizeProcessedFolderAndMeta, filePath, r.metadata)
                /\ pc' = "template"
                /\ log' = Append(log, Ev("resolve", filePath, 0, <<>>))
                /\ UNCHANGED <<callVars, potentialBases, potentialOverlays, metaKeys,
                               kustomizeFileMappings, disk, scanned, idx, eBound, o,
                               splitVars, err>>

\* lines 236-246: the templating call on the current key
Template(outcomes) ==
    /\ pc = "template"
    /\ \E out \in outcomes :
         LET filePath == metaKeys[idx]
             newLog == Append(log, Ev("template", filePath, out.rc, out.stdout))
         IN  IF out.raised
             THEN IF ~eBound
                  THEN \* line 245 reads e, which no communicate() has bound yet
                       Crash(Error("UnboundLocalError", 245), newLog)
                  ELSE \* logged; continue
                       /\ NextUnit
                       /\ log' = newLog
                       /\ UNCHANGED <<callVars, classVars, disk, scanned, eBound, o,
                                      splitVars, err>>
             ELSE /\ o' = out.stdout
                  /\ eBound' = TRUE
                  /\ pc' = "extract"
                  /\ log' = newLog
                  /\ UNCHANGED <<callVars, classVars, disk, scanned, idx, splitVars, err>>

\* line 197: the directory tempfile.TemporaryDirectory() makes for the n-th
\* call of run()
TargetDir(n) == <<"tmp", ToString(n)>>

\* lines 248-272: the output directory and the splitter's initial state
Extract ==
    /\ pc = "extract"
    /\ LET filePath == metaKeys[idx]
           r == EnvOrBasePathPrefix(kustomizeProcessedFolderAndMeta[filePath])
       IN  IF r.err # NoErr
           THEN Crash(r.err, log)
           ELSE /\ extractDir' = TargetDir(runs) \o r.prefix
                /\ cur_source_file' = -1
                /\ cur_writer' = <<>>
                /\ last_line_dashes' = FALSE
                /\ line_num' = 1
                /\ file_num' = 0
                /\ reader' = <<SEP>> \o o
                /\ pc' = "split"
                /\ log' = Append(log, Ev("extract", filePath, 0, TargetDir(runs) \o r.prefix))
                /\ UNCHANGED <<callVars, classVars, disk, scanned, idx, eBound, o, err>>

\* lines 274-313, one iteration: the next line of the reader
SplitLine ==
    /\ pc = "split"
    /\ reader # <<>>
    /\ LET filePath == metaKeys[idx]
           s == Rstrip(Head(reader))
       IN  IF s = "---"
           THEN /\ last_line_dashes' = TRUE
                /\ reader' = Tail(reader)
                /\ UNCHANGED <<callVars, classVars, disk, scanned, pc, idx, eBound, o,
                               extractDir, cur_writer, cur_source_file, line_num,
                               file_num, err, log>>
           ELSE IF last_line_dashes
           THEN IF ~StartsWithApiVersion(s)
                THEN Crash(Error("Exception", 286), log)
                ELSE LET source == file_num
                         switch == source # cur_source_file
                         closing == switch /\ cur_writer # <<>>
                         fin == IF closing
                                THEN CurWriterRenameAndClose(disk, kustomizeFileMappings,
                                                             cur_writer[1], filePath)
                                ELSE [err |-> NoErr, disk |-> disk,
                                      mappings |-> kustomizeFileMappings]
                         closeLog == IF closing
                                     THEN Append(log, Ev("close", filePath, cur_source_file,
                                                         disk[cur_writer[1]]))
                                     ELSE log
                         file_path == [dir |-> extractDir, file |-> <<ToString(source)>>]
                         writer == IF switch THEN file_path ELSE cur_writer[1]
                         opened == IF switch THEN OpenAppend(fin.disk, file_path) ELSE fin.disk
                     IN  IF fin.err # NoErr
                         THEN Crash(fin.err, closeLog)
                         ELSE /\ file_num' = file_num + 1
                              /\ cur_source_file' = source
                              /\ cur_writer' = <<writer>>
                              /\ kustomizeFileMappings' = fin.mappings
                              /\ disk' = WriteLine(WriteLine(opened, writer, "---"), writer, s)
                              /\ last_line_dashes' = FALSE
                              /\ line_num' = line_num + 1
                              /\ reader' = Tail(reader)
                              /\ log' = IF switch
                                        THEN Append(closeLog, Ev("open", filePath, source, <<>>))
                                        ELSE closeLog
                              /\ UNCHANGED <<callVars, potentialBases, potentialOverlays,
                                             metaKeys, kustomizeProcessedFolderAndMeta,
                                             scanned, pc, idx, eBound, o, extractDir, err>>
           ELSE IF StartsWithApiVersion(s)
                THEN Crash(Error("Exception", 306), log)
                ELSE IF cur_writer = <<>>
                THEN /\ reader' = Tail(reader)
                     /\ UNCHANGED <<callVars, classVars, disk, scanned, pc, idx, eBound, o,
                                    extractDir, cur_writer, cur_source_file,
                                    last_line_dashes, line_num, file_num, err, log>>
                ELSE /\ disk' = WriteLine(disk, cur_writer[1], s)
                     /\ line_num' = line_num + 1
                     /\ reader' = Tail(reader)
                     /\ UNCHANGED <<callVars, classVars, scanned, pc, idx, eBound, o,
                                    extractDir, cur_writer, cur_source_file,
                                    last_line_dashes, file_num, err, log>>

\* lines 315-316: the reader is exhausted
SplitEnd ==
    /\ pc = "split"
    /\ reader = <<>>
    /\ LET filePath == metaKeys[idx]
           closing == cur_writer # <<>>
           fin == IF closing
                  THEN CurWriterRenameAndClose(disk, kustomizeFileMappings,
                                               cur_writer[1], filePath)
                  ELSE [err |-> NoErr, disk |-> disk, mappings |-> kustomizeFileMappings]
           closeLog == IF closing
                       THEN Append(log, Ev("close", filePath, cur_source_file,
                                           disk[cur_writer[1]]))
                       ELSE log
       IN  IF fin.err # NoErr
           THEN Crash(fin.err, closeLog)
           ELSE /\ disk' = fin.disk
                /\ kustomizeFileMappings' = fin.mappings
                /\ log' = Append(closeLog, Ev("splitdone", filePath, file_num, <<>>))
                /\ NextUnit
                /\ UNCHANGED <<callVars, potentialBases, potentialOverlays, metaKeys,
                               kustomizeProcessedFolderAndMeta, scanned, eBound, o,
                               splitVars, err>>

\* lines 318-338: the Kubernetes runner is given target_dir; whatever it
\* raises is caught and logged; leaving the with block removes the tree
RunK8s(e, n) ==
    /\ pc = "k8s"
    /\ \E run \in EngineRuns(disk, e, n) :
         LET chart_results == RunEngine(run, kustomizeProcessedFolderAndMeta,
                                        kustomizeFileMappings)
         IN  /\ engine' = run
             /\ report' = IF chart_results.err = NoErr
                          THEN report \o chart_results.report
                          ELSE \* caught and logged at lines 331-332
                               report
             /\ log' = Append(log, Ev("k8s", <<>>, chart_results.err.line, <<>>))
    /\ scanned' = disk
    /\ disk' = EmptyMap
    /\ pc' = "done"
    /\ UNCHANGED <<runs, units, classVars, idx, eBound, o, splitVars, err>>

\* most calls of run() in one process
MaxRuns == 2

\* run() is called again in the same process: the class attributes are as
\* the earlier call left them, the locals and the temporary directory are new
NewRun(US) ==
    /\ pc \in {"done", "crashed"}
    /\ runs < MaxRuns
    /\ runs' = runs + 1
    /\ units' \in US
    /\ disk' = EmptyMap
    /\ scanned' = EmptyMap
    /\ pc' = "classify"
    /\ idx' = 1
    /\ eBound' = FALSE
    /\ o' = <<>>
    /\ reader' = <<>>
    /\ extractDir' = <<>>
    /\ cur_writer' = <<>>
    /\ cur_source_file' = -1
    /\ last_line_dashes' = FALSE
    /\ line_num' = 1
    /\ file_num' = 0
    /\ err' = NoErr
    /\ engine' = NoFindings
    /\ report' = <<>>
    /\ log' = <<>>
    /\ UNCHANGED classVars

Next ==
    \/ Classify
    \/ Resolve
    \/ Template(RunOutcomes)
    \/ Extract
    \/ SplitLine
    \/ SplitEnd
    \/ RunK8s(0, 0)

Spec == Init /\ [][Next]_vars

NextSplit ==
    \/ Classify
    \/ Resolve
    \/ Template(SplitOutcomes)
    \/ Extract
    \/ SplitLine
    \/ SplitEnd
    \/ RunK8s(0, 0)

SpecSplit == InitSplit /\ [][NextSplit]_vars

\* a base and an overlay of it whose outputs are split without error, and
\* an engine that reports on the tree: at most one entity with check
\* results and at most MaxReported graph results
ReportOutcomes ==
    {Exited(0, DocX), Exited(0, DocX \o DocY), Exited(0, DocX \o DocXns),
     Exited(0, DocXns \o DocX \o DocXns)}

NextReport ==
    \/ Classify
    \/ Resolve
    \/ Template(ReportOutcomes)
    \/ Extract
    \/ SplitLine
    \/ SplitEnd
    \/ RunK8s(1, MaxReported)

SpecReport == InitSplit /\ [][NextReport]_vars

\* run() called up to MaxRuns times, each time on a root that holds the
\* base, the overlay, or both
RunsUnits ==
    SplitUnits
      \cup {<<[dir |-> BaseDir, manifest |-> BaseManifest]>>,
            <<[dir |-> OverlayDir, manifest |-> OverlayManifest]>>}

InitRuns == InitOver(RunsUnits)

RunsOutcomes == {Raised, Exited(0, DocX), Exited(0, DocX \o DocXns)}

NextRuns ==
    \/ Classify
    \/ Resolve
    \/ Template(RunsOutcomes)
    \/ Extract
    \/ SplitLine
    \/ SplitEnd
    \/ RunK8s(0, 0)
    \/ NewRun(RunsUnits)

SpecRuns == InitRuns /\ [][NextRuns]_vars

\* one root with two services, each with a base at <service>/deploy/k8s/base
Svc1Base == <<"svc1", "deploy", "k8s", "base">>
Svc2Base == <<"svc2", "deploy", "k8s", "base">>

TreeUnits == UnitSeqs({Svc1Base, Svc2Base, BaseDir}, {BaseManifest})

InitTree == InitOver(TreeUnits)

TreeOutcomes == {Raised, Exited(0, DocX), Exited(0, DocY), Exited(0, DocX \o DocY)}

NextTree ==
    \/ Classify
    \/ Resolve
    \/ Template(TreeOutcomes)
    \/ Extract
    \/ SplitLine
    \/ SplitEnd
    \/ RunK8s(0, 0)

SpecTree == InitTree /\ [][NextTree]_vars

(***************************************************************************)
(* What the history says.                                                  *)
(***************************************************************************)
\* the entries of the history about unit u with event e, in order
EventsOf(e, u) == SelectSeq(log, LAMBDA x : x.ev = e /\ x.unit = u)

Happened(e, u) == EventsOf(e, u) # <<>>

\* run() has returned or was left by an exception
Ended == pc \in {"done", "crashed"}

\* the splitter is at work on the output of unit u
Splitting(u) == pc \in {"extract", "split"} /\ metaKeys[idx] = u

\* the units whose templating call returned, with the lines it returned
Returned(u) == SelectSeq(EventsOf("template", u), LAMBDA x : x.n # -1)

\* the documents of a stream: the stream cut before each separator line
RECURSIVE CutAtSeparators(_, _, _)
CutAtSeparators(ls, cur, acc) ==
    IF ls = <<>> THEN (IF cur = <<>> THEN acc ELSE Append(acc, cur))
    ELSE IF Rstrip(Head(ls)) = SEP
         THEN CutAtSeparators(Tail(ls), <<Head(ls)>>,
                              IF cur = <<>> THEN acc ELSE Append(acc, cur))
         ELSE CutAtSeparators(Tail(ls), Append(cur, Head(ls)), acc)

DocumentsOf(ls) == CutAtSeparators(ls, <<>>, <<>>)

\* a separator line, a header line, then lines that are no header lines
WellFormedDocument(d) ==
    /\ Len(d) >= 2
    /\ Rstrip(d[1]) = SEP
    /\ StartsWithApiVersion(Rstrip(d[2]))
    /\ \A i \in 3..Len(d) : ~StartsWithApiVersion(Rstrip(d[i]))

WellFormedStream(ls) == \A i \in DOMAIN DocumentsOf(ls) : WellFormedDocument(DocumentsOf(ls)[i])

Stripped(d) == [i \in 1..Len(d) |-> Rstrip(d[i])]

\* the output directory picked for unit u
DirOf(u) == EventsOf("extract", u)[1].lines

\* the temporary file of the document of unit u with ordinal n
TempFile(u, n) == [dir |-> DirOf(u), file |-> <<ToString(n)>>]

(***************************************************************************)
(* Claims about the splitter, checked under SpecSplit.                     *)
(***************************************************************************)

\* C1: once the splitter is done with a templating output that is a
\* sequence of N well-formed documents (a separator line, a header line,
\* lines that are no header lines), N documents were opened, with ordinals
\* 0..N-1 in order, and N were closed and handed to
\* _curWriterRenameAndClose, the i-th holding the lines of the i-th document.
C1_RoundTrip ==
    \A u \in DOMAIN kustomizeProcessedFolderAndMeta :
        \A k \in DOMAIN Returned(u) :
            LET docs == DocumentsOf(Returned(u)[k].lines)
                opened == EventsOf("open", u)
                closed == EventsOf("close", u)
            IN  (WellFormedStream(Returned(u)[k].lines) /\ ~Splitting(u)) =>
                    /\ Len(opened) = Len(docs)
                    /\ \A i \in DOMAIN opened : opened[i].n = i - 1
                    /\ Len(closed) = Len(docs)
                    /\ \A i \in DOMAIN closed :
                         closed[i].n = i - 1 /\ closed[i].lines = Stripped(docs[i])

\* C2: a run in which nothing but the splitter's protocol errors (lines 286
\* and 306) was raised ends by returning, after every unit was resolved and
\* templated and the tree was handed to the Kubernetes runner, every
\* recorded document still in the tree.
C2_MalformedStreamIsolated ==
    (Ended /\ err.type \in {"", "Exception"}) =>
        /\ pc = "done"
        /\ \A i \in DOMAIN metaKeys :
             Happened("resolve", metaKeys[i]) /\ Happened("template", metaKeys[i])
        /\ Happened("k8s", <<>>)
        /\ \A f \in DOMAIN kustomizeFileMappings : f \in DOMAIN scanned

\* C3: after a header line that follows no separator raised (line 306),
\* every document finalized and recorded before it still has its final file.
C3_StrayHeaderKeepsFinalized ==
    err = Error("Exception", 306) =>
        \A f \in DOMAIN kustomizeFileMappings : f \in DOMAIN disk

\* C4: a run in which nothing but documents without a kind went wrong
\* ends by returning: each such document is in the tree under its ordinal
\* and has no provenance entry, and every unit was split to its end.
C4_MissingKindSkipsDocument ==
    (Ended /\ (err = NoErr \/ err = Error("KeyError", 350))) =>
        /\ pc = "done"
        /\ \A i \in DOMAIN metaKeys :
             LET u == metaKeys[i]
                 closed == EventsOf("close", u)
             IN  /\ Happened("template", u)
                 /\ Returned(u) # <<>> => Happened("splitdone", u)
                 /\ \A j \in DOMAIN closed :
                      "kind" \notin YamlLoad(closed[j].lines).has =>
                         /\ TempFile(u, closed[j].n) \in DOMAIN scanned
                         /\ TempFile(u, closed[j].n) \notin DOMAIN kustomizeFileMappings

(***************************************************************************)
(* Claims about classification and base resolution, checked under Spec.    *)
(***************************************************************************)
Resolved(u) == Happened("resolve", u)

IsKnownBase(b) == \E j \in DOMAIN potentialBases : potentialBases[j] = ManifestPath(b)

\* an ancestor of u is the directory two levels above b's manifest
AncestorMatch(u, b) ==
    \E i \in DOMAIN PathParents(u) : PathParents(u)[i] = PathParent(b)

LastComponent(p) == p[Len(p)]

\* how many directories line 195 has called parseKustomization on
NumAttempted ==
    IF pc = "classify" THEN idx - 1
    ELSE IF pc = "crashed" /\ err.line \in {145, 155} THEN idx
    ELSE Len(units)

\* C5: an overlay whose first declared base reference resolves to a known
\* base that an ancestor of the overlay lies two levels above the manifest
\* of, is named, once resolved, by its path relative to the parent of that
\* base's directory.
C5_OverlayNameFromDeclaredBase ==
    \A u \in DOMAIN kustomizeProcessedFolderAndMeta :
        LET m == kustomizeProcessedFolderAndMeta[u] IN
        (/\ m.type = "overlay"
         /\ Resolved(u)
         /\ "referenced_bases" \in DOMAIN m
         /\ m.referenced_bases # <<>>) =>
            LET b == PathResolve(u \o m.referenced_bases[1]) IN
            (IsKnownBase(b) /\ AncestorMatch(u, b)) =>
                /\ "overlay_name" \in DOMAIN m
                /\ m.overlay_name = RelativeTo(u, PathParent(b))

\* a root that holds base/ (declaring resources) and overlays/prod/
\* (declaring patchesStrategicMerge and bases ['../../base']), nothing else
EndToEndRoot == units \in SplitUnits

\* C6 (as amended): on that root the base is classified base, the overlay
\* overlay, and once the overlay is resolved its validated base is base/
\* and its overlay name is the path overlays/prod.
C6_EndToEndName ==
    (EndToEndRoot /\ Resolved(OverlayDir)) =>
        LET m == kustomizeProcessedFolderAndMeta[OverlayDir] IN
        /\ kustomizeProcessedFolderAndMeta[BaseDir].type = "base"
        /\ m.type = "overlay"
        /\ "validated_base" \in DOMAIN m
        /\ m.validated_base = BaseDir
        /\ m.overlay_name = <<"overlays", "prod">>

\* C6 witness: the overlay of that root has been resolved
C6_Reached == EndToEndRoot /\ Resolved(OverlayDir)

\* C6 as claimed: the overlay name is the directory name 'prod' alone
C6_EndToEndNameProd ==
    (EndToEndRoot /\ Resolved(OverlayDir)) =>
        LET m == kustomizeProcessedFolderAndMeta[OverlayDir] IN
        /\ "validated_base" \in DOMAIN m
        /\ m.validated_base = BaseDir
        /\ m.overlay_name = <<"prod">>

\* C7: resolution never raises (line 217) nor makes the run fail later
\* (line 249); once resolved, an overlay has an overlay name, which without
\* a validated base is UNVALIDATEDBASEDIR/<final component>; a base has none.
C7_FallbackName ==
    /\ ~(pc = "crashed" /\ err \in {Error("IndexError", 217), Error("KeyError", 249)})
    /\ \A u \in DOMAIN kustomizeProcessedFolderAndMeta :
         LET m == kustomizeProcessedFolderAndMeta[u] IN
         /\ m.type = "base" => "overlay_name" \notin DOMAIN m
         /\ (m.type = "overlay" /\ Resolved(u)) =>
               /\ "overlay_name" \in DOMAIN m
               /\ "validated_base" \notin DOMAIN m =>
                     m.overlay_name = <<"UNVALIDATEDBASEDIR", LastComponent(u)>>

\* C8: an overlay for which the walk found no base has the fallback name,
\* and once its templating call has returned and the splitter is not at
\* work on it, its output directory was picked and its stream split to the end.
C8_NoCandidateBase ==
    \A u \in DOMAIN kustomizeProcessedFolderAndMeta :
        LET m == kustomizeProcessedFolderAndMeta[u] IN
        (m.type = "overlay" /\ Resolved(u) /\ "calculated_bases" \notin DOMAIN m) =>
            /\ m.overlay_name = <<"UNVALIDATEDBASEDIR", LastComponent(u)>>
            /\ (Returned(u) # <<>> /\ ~Splitting(u)) =>
                   Happened("extract", u) /\ Happened("splitdone", u)

\* C9: every manifest that declares at least one of the three keys and that
\* parseKustomization was called on is classified by priority: resources
\* gives base; else patchesStrategicMerge gives overlay; else bases gives
\* overlay; an overlay declaring bases records them; a base is in
\* potentialBases, an overlay in potentialOverlays.
C9_ClassificationPriority ==
    \A i \in 1..NumAttempted :
        LET d == units[i].dir
            mf == units[i].manifest
        IN  (mf.parses /\ mf.keys # {}) =>
                /\ d \in DOMAIN kustomizeProcessedFolderAndMeta
                /\ LET m == kustomizeProcessedFolderAndMeta[d] IN
                   IF "resources" \in mf.keys
                   THEN /\ m.type = "base"
                        /\ \E j \in DOMAIN potentialBases : potentialBases[j] = ManifestPath(d)
                   ELSE /\ m.type = "overlay"
                        /\ \E j \in DOMAIN potentialOverlays :
                               potentialOverlays[j] = ManifestPath(d)
                        /\ "bases" \in mf.keys =>
                               /\ "referenced_bases" \in DOMAIN m
                               /\ m.referenced_bases = mf.bases

\* C10: a manifest that declares none of the three keys and that
\* parseKustomization was called on does not end the run; its unit is in
\* neither registry and is never resolved, templated or split.
C10_UnknownSkipped ==
    \A i \in 1..NumAttempted :
        LET d == units[i].dir
            mf == units[i].manifest
        IN  (mf.parses /\ mf.keys = {}) =>
                /\ ~(pc = "crashed" /\ idx = i /\ err.line = 155)
                /\ \A j \in DOMAIN potentialBases : potentialBases[j] # ManifestPath(d)
                /\ \A j \in DOMAIN potentialOverlays : potentialOverlays[j] # ManifestPath(d)
                /\ ~Happened("resolve", d)
                /\ ~Happened("template", d)
                /\ ~Happened("extract", d)

\* C11: a manifest that yaml.safe_load rejects and that parseKustomization
\* was called on does not end the run; its unit is in neither registry, has
\* no metadata, and is never resolved, templated or split.
C11_ParseFailureSkipped ==
    \A i \in 1..NumAttempted :
        LET d == units[i].dir
            mf == units[i].manifest
        IN  ~mf.parses =>
                /\ ~(pc = "crashed" /\ idx = i /\ err.line = 145)
                /\ \A j \in DOMAIN potentialBases : potentialBases[j] # ManifestPath(d)
                /\ \A j \in DOMAIN potentialOverlays : potentialOverlays[j] # ManifestPath(d)
                /\ ~Happened("resolve", d)
                /\ ~Happened("template", d)
                /\ ~Happened("extract", d)

(***************************************************************************)
(* Claims about the report, checked under SpecReport.                      *)
(***************************************************************************)
\* the results the engine reported, in the order it handed them over
RECURSIVE EntityResults(_, _)
EntityResults(es, i) ==
    IF i > Len(es) THEN <<>>
    ELSE [j \in 1..Len(es[i].results) |->
              [check |-> es[i].results[j], path |-> es[i].path, id |-> es[i].id]]
         \o EntityResults(es, i + 1)

AllResults == EntityResults(engine.entities, 1) \o engine.graph

HasEntry(f) == f \in DOMAIN kustomizeFileMappings

\* the Kubernetes runner returned without an exception
EngineReturned == Happened("k8s", <<>>) /\ EventsOf("k8s", <<>>)[1].n = 0

UnitManifests == {ManifestPath(u) : u \in DOMAIN kustomizeProcessedFolderAndMeta}

\* C12: once run() has returned, the engine's call raised nothing, the
\* report holds one record per reported result, in order, and the record of
\* a result whose path has no provenance entry carries the sentinel
\* identifier and the manifest of no unit.
C12_LookupMissKeepsResult ==
    pc = "done" =>
        /\ EngineReturned
        /\ Len(report) = Len(AllResults)
        /\ \A i \in DOMAIN AllResults :
             ~HasEntry(AllResults[i].path) =>
                 /\ report[i].check = AllResults[i].check
                 /\ report[i].resource = Sentinel
                 /\ report[i].file_path \notin UnitManifests

\* C13: every record of the report made from a result whose path has a
\* provenance entry carries 'overlay:<overlay name>:<resource id>' when the
\* unit the entry names is an overlay, and 'base:<resource id>' when it is
\* a base.
C13_IdentifierRewritten ==
    (pc = "done" /\ EngineReturned) =>
        /\ Len(report) = Len(AllResults)
        /\ \A i \in DOMAIN AllResults :
             HasEntry(AllResults[i].path) =>
                 LET u == kustomizeFileMappings[AllResults[i].path]
                     m == kustomizeProcessedFolderAndMeta[u]
                 IN  /\ report[i].check = AllResults[i].check
                     /\ m.type = "overlay" =>
                          report[i].resource =
                              <<"overlay", ":">> \o PathStr(m.overlay_name)
                                                 \o <<":", AllResults[i].id>>
                     /\ u = OverlayDir =>
                          report[i].resource =
                              <<"overlay", ":", "overlays", "/", "prod", ":",
                                AllResults[i].id>>
                     /\ m.type = "base" =>
                          report[i].resource = <<"base", ":", AllResults[i].id>>

\* C13 witness: the report holds a record of an overlay's document and a
\* record of a base's document
C13_Reached ==
    /\ pc = "done"
    /\ EngineReturned
    /\ \E i, j \in DOMAIN AllResults :
         /\ HasEntry(AllResults[i].path)
         /\ HasEntry(AllResults[j].path)
         /\ kustomizeFileMappings[AllResults[i].path] = OverlayDir
         /\ kustomizeFileMappings[AllResults[j].path] = BaseDir
         /\ Len(report) = 2

(***************************************************************************)
(* Claims about final paths and the provenance map.                        *)
(***************************************************************************)
\* the output tree: what the Kubernetes runner was given once run() has
\* returned, else what is under target_dir
Tree == IF pc = "done" THEN scanned ELSE disk

\* a closed document that _curWriterRenameAndClose can name
Nameable(ls) ==
    LET y == YamlLoad(ls) IN
    ~y.bad /\ {"kind", "metadata"} \subseteq y.has /\ ~y.isNull

\* kind, namespace and name read from the lines of a closed document
NameOf(ls) ==
    LET y == YamlLoad(ls) IN
    <<y.kind[1],
      IF "namespace" \in DOMAIN y.metadata THEN y.metadata["namespace"] ELSE "default",
      IF "name" \in DOMAIN y.metadata THEN y.metadata["name"] ELSE "noname">>

\* the final path of a document of unit u with those lines
FinalPath(u, ls) == [dir |-> DirOf(u), file |-> NameOf(ls)]

\* C14: of two documents of one unit with the same kind, namespace and
\* name, the later being the last of that name, closing the later one
\* raises nothing, and while the tree exists the shared final path holds
\* the later one's lines and has one provenance entry, naming the unit, and
\* neither ordinal-named file is left.
C14_LaterDocumentWins ==
    \A u \in DOMAIN kustomizeProcessedFolderAndMeta :
        LET closed == EventsOf("close", u) IN
        \A i, j \in DOMAIN closed :
            (/\ i < j
             /\ Nameable(closed[i].lines)
             /\ Nameable(closed[j].lines)
             /\ NameOf(closed[i].lines) = NameOf(closed[j].lines)
             /\ \A k \in DOMAIN closed :
                    (k > j /\ Nameable(closed[k].lines)) =>
                        NameOf(closed[k].lines) # NameOf(closed[j].lines)
            ) =>
                LET f == FinalPath(u, closed[j].lines) IN
                /\ ~(pc = "crashed" /\ err.line \in 340..366 /\ log[Len(log)] = closed[j])
                /\ f \in DOMAIN kustomizeFileMappings
                /\ kustomizeFileMappings[f] = u
                /\ pc # "crashed" =>
                      /\ f \in DOMAIN Tree
                      /\ Tree[f] = closed[j].lines
                      /\ TempFile(u, closed[i].n) \notin DOMAIN Tree
                      /\ TempFile(u, closed[j].n) \notin DOMAIN Tree

\* C14 witness: two documents of one unit with one name and different
\* lines were finalized
C14_Reached ==
    /\ pc # "crashed"
    /\ \E u \in DOMAIN kustomizeProcessedFolderAndMeta :
         LET closed == EventsOf("close", u) IN
         /\ Len(closed) = 2
         /\ Nameable(closed[1].lines)
         /\ Nameable(closed[2].lines)
         /\ NameOf(closed[1].lines) = NameOf(closed[2].lines)
         /\ closed[1].lines # closed[2].lines

\* what a step adds to the history
NewEvents ==
    IF Len(log') > Len(log) THEN SubSeq(log', Len(log) + 1, Len(log')) ELSE <<>>

C16_TemplatingFailureSkipsUnit ==
    /\ ~(pc = "crashed" /\ err = Error("UnboundLocalError", 245))
    /\ \A u \in DOMAIN kustomizeProcessedFolderAndMeta :
         \A k \in DOMAIN EventsOf("template", u) :
             EventsOf("template", u)[k].n # 0 =>
                 /\ ~Happened("extract", u)
                 /\ ~Happened("open", u)
                 /\ \A f \in DOMAIN kustomizeFileMappings : kustomizeFileMappings[f] # u

\* C16, exit status only: a templating call that exited non-zero is not split
C16_NonZeroExitNotSplit ==
    \A u \in DOMAIN kustomizeProcessedFolderAndMeta :
        \A k \in DOMAIN EventsOf("template", u) :
            EventsOf("template", u)[k].n > 0 => ~Happened("open", u)

\* the directories the current call of run() was given
OwnUnits == {units[i].dir : i \in DOMAIN units}

\* C17: a call of run() starts with empty registries and maps, and all it
\* resolves, templates, registers and records comes from the units it was
\* given: the known bases and overlays, the keys of the metadata map, the
\* base calculated for an overlay, and the units and the output directory
\* of the provenance entries.
C17_RunScoped ==
    /\ (pc = "classify" /\ idx = 1) =>
          /\ potentialBases = <<>>
          /\ potentialOverlays = <<>>
          /\ kustomizeProcessedFolderAndMeta = EmptyMap
          /\ kustomizeFileMappings = EmptyMap
    /\ \A k \in DOMAIN log :
          log[k].ev \in {"resolve", "template", "extract"} => log[k].unit \in OwnUnits
    /\ \A j \in DOMAIN potentialBases : PathParent(potentialBases[j]) \in OwnUnits
    /\ \A j \in DOMAIN potentialOverlays : PathParent(potentialOverlays[j]) \in OwnUnits
    /\ DOMAIN kustomizeProcessedFolderAndMeta \subseteq OwnUnits
    /\ \A u \in DOMAIN kustomizeProcessedFolderAndMeta :
          "calculated_bases" \in DOMAIN kustomizeProcessedFolderAndMeta[u] =>
              kustomizeProcessedFolderAndMeta[u].calculated_bases \in OwnUnits
    /\ \A f \in DOMAIN kustomizeFileMappings :
          /\ kustomizeFileMappings[f] \in OwnUnits
          /\ IsPrefix(TargetDir(runs), f.dir)

\* C17, one case: an overlay run() is given alone, no base with it, gets
\* the fallback name
C17_LoneOverlayUnvalidated ==
    (units = <<[dir |-> OverlayDir, manifest |-> OverlayManifest]>> /\ Resolved(OverlayDir)) =>
        /\ "validated_base" \notin DOMAIN kustomizeProcessedFolderAndMeta[OverlayDir]
        /\ kustomizeProcessedFolderAndMeta[OverlayDir].overlay_name =
               <<"UNVALIDATEDBASEDIR", "prod">>

\* the positions of the templating calls in the history
TemplateIdx == {k \in DOMAIN log : log[k].ev = "template"}

\* unit u has event e before position k of the history
Before(e, u, k) == \E j \in 1..(k - 1) : log[j].ev = e /\ log[j].unit = u

\* before position k, every unit of the run was classified
AllClassifiedBefore(k) == \A i \in DOMAIN units : Before("classify", units[i].dir, k)

\* the templating call at position j was over, its output split to the
\* end or the call having raised, before position k
OverBefore(j, k) ==
    \/ log[j].n = -1
    \/ \E s \in (j + 1)..(k - 1) : log[s].ev = "splitdone" /\ log[s].unit = log[j].unit

\* C18 as claimed: when a templating call begins, every unit was classified
\* and every overlay was resolved and has its overlay name, and every
\* earlier templating call was over.
C18_AllResolvedBeforeTemplating ==
    \A k \in TemplateIdx :
        /\ AllClassifiedBefore(k)
        /\ \A u \in DOMAIN kustomizeProcessedFolderAndMeta :
             kustomizeProcessedFolderAndMeta[u].type = "overlay" =>
                 /\ Before("resolve", u, k)
                 /\ "overlay_name" \in DOMAIN kustomizeProcessedFolderAndMeta[u]
        /\ \A j \in TemplateIdx : j < k => OverBefore(j, k)

\* C18 (as amended): when a templating call begins, every unit was
\* classified, the unit the call is made for was resolved (an overlay has
\* its overlay name), and every earlier templating call was over.
C18_Sequential ==
    \A k \in TemplateIdx :
        LET u == log[k].unit IN
        /\ AllClassifiedBefore(k)
        /\ Before("resolve", u, k)
        /\ kustomizeProcessedFolderAndMeta[u].type = "overlay" =>
              "overlay_name" \in DOMAIN kustomizeProcessedFolderAndMeta[u]
        /\ \A j \in TemplateIdx : j < k => OverBefore(j, k)

\* C18 witness: the second templating call of a run with an overlay has begun
C18_Reached ==
    /\ Cardinality(TemplateIdx) = 2
    /\ \E k \in TemplateIdx :
         /\ kustomizeProcessedFolderAndMeta[log[k].unit].type = "overlay"
         /\ \E j \in TemplateIdx : j < k

(***************************************************************************)
(* Claims about the splitter's protocol, checked under SpecSplit.          *)
(***************************************************************************)
\* the splitter is about to read a line that is no separator, the line
\* before it (blank separators aside) having been one
HeaderExpected ==
    /\ pc = "split"
    /\ reader # <<>>
    /\ last_line_dashes
    /\ Rstrip(Head(reader)) # SEP

\* C19: a step that reads the first line after a separator either finds the
\* header key, and then the document open so far, if any, is closed and
\* renamed away, and a new document with the next ordinal is open and holds
\* the separator and the header line; or it does not, and then the
\* exception of line 286 is raised and no document is opened.
C19_HeaderAfterSeparator ==
    [][HeaderExpected =>
          LET s == Rstrip(Head(reader))
              new == [dir |-> extractDir, file |-> <<ToString(file_num)>>]
          IN  IF StartsWithApiVersion(s)
              THEN /\ pc' = "split"
                   /\ cur_writer # <<>> =>
                         /\ cur_writer[1] \notin DOMAIN disk'
                         /\ \E f \in DOMAIN kustomizeFileMappings' :
                                /\ f \in DOMAIN disk'
                                /\ f.dir = extractDir
                                /\ disk'[f] = disk[cur_writer[1]]
                         /\ NewEvents[1].ev = "close"
                   /\ cur_writer' = <<new>>
                   /\ disk'[new] = <<SEP, s>>
                   /\ file_num' = file_num + 1
                   /\ NewEvents[Len(NewEvents)] = Ev("open", metaKeys[idx], file_num, <<>>)
              ELSE /\ pc' = "crashed"
                   /\ err' = Error("Exception", 286)
                   /\ NewEvents = <<>>
                   /\ new \notin DOMAIN disk']_vars

\* how many lines of ls come before its first separator or header line
RECURSIVE LeadingNoise(_)
LeadingNoise(ls) ==
    IF ls = <<>> THEN 0
    ELSE IF Rstrip(Head(ls)) = SEP \/ StartsWithApiVersion(Rstrip(Head(ls))) THEN 0
    ELSE 1 + LeadingNoise(Tail(ls))

\* C20: a templating output that begins with lines that are neither
\* separators nor header lines raises nothing on them, and when what
\* follows them is a sequence of well-formed, nameable documents, the
\* splitter opens and closes exactly those documents.
C20_NoiseDiscarded ==
    \A u \in DOMAIN kustomizeProcessedFolderAndMeta :
        \A k \in DOMAIN Returned(u) :
            LET ls == Returned(u)[k].lines
                n == LeadingNoise(ls)
                rest == SubSeq(ls, n + 1, Len(ls))
                docs == DocumentsOf(rest)
                opened == EventsOf("open", u)
                closed == EventsOf("close", u)
            IN  n > 0 =>
                  /\ ~(/\ pc = "crashed"
                       /\ metaKeys[idx] = u
                       /\ err = Error("Exception", 286)
                       /\ opened = <<>>)
                  /\ (/\ WellFormedStream(rest)
                      /\ \A i \in DOMAIN docs : Nameable(Stripped(docs[i]))
                      /\ Happened("extract", u)
                      /\ ~Splitting(u)) =>
                        /\ Len(opened) = Len(docs)
                        /\ Len(closed) = Len(docs)
                        /\ \A i \in DOMAIN closed : closed[i].lines = Stripped(docs[i])

(***************************************************************************)
(* Claims about the walk over ancestors and known bases and about the      *)
(* output directories.                                                     *)
(***************************************************************************)
\* the pairs <<i, j>>: the i-th ancestor of overlay u (nearest first) is the
\* directory two levels above the manifest of the j-th known base
WalkMatches(u) ==
    {<<i, j>> \in (DOMAIN PathParents(u)) \X (DOMAIN potentialBases) :
        PathParents(u)[i] = PathParent(PathParent(potentialBases[j]))}

\* walk order: ancestors in turn, the known bases in turn within one ancestor
WalkEarlier(a, b) == a[1] < b[1] \/ (a[1] = b[1] /\ a[2] < b[2])

\* C21: once an overlay is resolved for which the walk has matches, its
\* calculated base is the directory of the first match in walk order.
C21_FirstMatchKept ==
    \A u \in DOMAIN kustomizeProcessedFolderAndMeta :
        LET m == kustomizeProcessedFolderAndMeta[u] IN
        (m.type = "overlay" /\ Resolved(u) /\ WalkMatches(u) # {}) =>
            LET first == CHOOSE a \in WalkMatches(u) :
                             \A b \in WalkMatches(u) : a = b \/ WalkEarlier(a, b)
            IN  /\ "calculated_bases" \in DOMAIN m
                /\ m.calculated_bases = PathParent(potentialBases[first[2]])

\* C22: two distinct units of a run never get the same output directory,
\* and while the tree exists every document finalized for a unit still has
\* its provenance entry naming that unit and a file holding lines of a
\* document of that unit.
C22_OneDirectoryPerUnit ==
    /\ \A u, v \in DOMAIN kustomizeProcessedFolderAndMeta :
          (u # v /\ Happened("extract", u) /\ Happened("extract", v)) =>
              DirOf(u) # DirOf(v)
    /\ pc # "crashed" =>
          \A u \in DOMAIN kustomizeProcessedFolderAndMeta :
              LET closed == EventsOf("close", u) IN
              \A i \in DOMAIN closed :
                  Nameable(closed[i].lines) =>
                      LET f == FinalPath(u, closed[i].lines) IN
                      /\ f \in DOMAIN kustomizeFileMappings
                      /\ kustomizeFileMappings[f] = u
                      /\ f \in DOMAIN Tree
                      /\ \E j \in DOMAIN closed : Tree[f] = closed[j].lines

\* C22, the provenance entries alone: no entry of a document finalized for
\* a unit comes to name another unit
C22_EntryKeepsUnit ==
    \A u \in DOMAIN kustomizeProcessedFolderAndMeta :
        \A i \in DOMAIN EventsOf("close", u) :
            LET ls == EventsOf("close", u)[i].lines IN
            (Nameable(ls) /\ FinalPath(u, ls) \in DOMAIN kustomizeFileMappings) =>
                kustomizeFileMappings[FinalPath(u, ls)] = u

====
